---- MODULE Spec2Model ----
(***************************************************************************)
(* Model of src/app.py: a Streamlit chat front end that aggregates the     *)
(* text documents of an Azure Blob container into one context string       *)
(* (leer_archivos_texto, cached for one hour), resolves the cedulas found  *)
(* in a question to signed image URLs, and keeps the chat transcript in    *)
(* the session state.                                                      *)
(*                                                                         *)
(* Strings are sequences of string tokens.  A blob name is a sequence of   *)
(* name segments (<<"notas", ".txt">>), a question is a sequence of        *)
(* characters, the aggregated context is a sequence of tokens.             *)
(***************************************************************************)
EXTENDS Integers, Sequences, FiniteSets, TLC

VARIABLES
    pc,                   \* position of the script / of the function under study
    container,            \* listing of the blob container, in enumeration order
    indice,               \* contents of <municipio>/urls_imagenes.json
    reloj,                \* wall clock, in seconds
    documentos_contexto,  \* st.session_state.documentos_contexto
    chat_history,         \* st.session_state.chat_history
    cache,                \* the st.cache_data entry of leer_archivos_texto
    temp_excel,           \* whether the local file temp_excel.xlsx exists
    errores,              \* st.error diagnostics shown by the current run
    widget,               \* the widget that triggered the current run
    prompt,               \* the question of the current run
    cedulas_en_pregunta,  \* local of the chat turn
    urls_imagenes,        \* local of the chat turn
    fallo,                \* the fault the environment injects into a scan
    retorno,              \* value returned by the function under study
    enumeraciones         \* number of container_client.list_blobs() calls

vars == <<pc, container, indice, reloj, documentos_contexto, chat_history,
          cache, temp_excel, errores, widget, prompt, cedulas_en_pregunta,
          urls_imagenes, fallo, retorno, enumeraciones>>

-----------------------------------------------------------------------------
(* Bounds of the model *)

MaxBlobs == 3
MaxPiezas == 4
MaxTurnos == 2
MaxReloj == 3600

(* Program constants *)

TTL == 3600
SAS_DIAS == 90
MIN_LEN == 6

SegundosPorDia == 86400

-----------------------------------------------------------------------------
(* Generic helpers *)

Ultimo(s) == s[Len(s)]

EsPrefijo(s, t) == Len(s) <= Len(t) /\ SubSeq(t, 1, Len(s)) = s

RECURSIVE Aplanar(_)
Aplanar(ss) == IF ss = <<>> THEN <<>> ELSE Head(ss) \o Aplanar(Tail(ss))

SeqsHasta(S, n) == UNION {[1..k -> S] : k \in 0..n}

Inyectiva(s) == \A i, j \in DOMAIN s : s[i] = s[j] => i = j

-----------------------------------------------------------------------------
(* The blob container *)

Raices == {"notas", "DOCUMENTOS_GENERALES", "Estado_documental_postulados"}
Extensiones == {".txt", ".md", ".docx", ".xlsx", ".jpg"}

Nombres == {<<r, e>> : r \in Raices, e \in Extensiones}

\* blob names are unique inside a container
Contenedores == {s \in SeqsHasta(Nombres, MaxBlobs) : Inyectiva(s)}

\* str.endswith / substring test on a name
endswith(name, sufijo) == Len(name) > 0 /\ Ultimo(name) = sufijo
contiene(name, marca) == \E i \in DOMAIN name : name[i] = marca

\* what download_blob(name).readall() yields, after extraction
decode(name) == <<"utf8(">> \o name \o <<")">>
parrafos(name) == << <<"p1(">> \o name \o <<")">>, <<"p2(">> \o name \o <<")">> >>
to_string(name) == <<"tabla(">> \o name \o <<")">>

RECURSIVE join(_, _)
join(sep, ps) ==
    IF ps = <<>> THEN <<>>
    ELSE IF Len(ps) = 1 THEN ps[1]
    ELSE ps[1] \o <<sep>> \o join(sep, Tail(ps))

-----------------------------------------------------------------------------
(* leer_archivos_texto: the scan of the container (src/app.py 80-101) *)

SEP == "\n---\n"

SinFallo == [en |-> 0, tipo |-> "ninguno"]

\* the faults a scan of blobs can meet: the listing, the download of a blob
\* or the parsing of its bytes raises at position en
Fallos(blobs) ==
    {SinFallo} \cup
    {[en |-> i, tipo |-> t] : i \in 1..Len(blobs),
                               t \in {"listar", "descargar", "analizar"}}

es_texto(name) == endswith(name, ".txt") \/ endswith(name, ".md")

es_docx_sin_marca(name) == endswith(name, ".docx")

es_docx_reglas(name) ==
    endswith(name, ".docx") /\ contiene(name, "DOCUMENTOS_GENERALES")

es_xlsx_estado(name) ==
    endswith(name, ".xlsx") /\ contiene(name, "Estado_documental_postulados")

\* f"\n---\nArchivo: {blob.name}\n{data}\n"
bloque_archivo(name, texto) ==
    <<SEP, "Archivo: ">> \o name \o <<"\n">> \o texto \o <<"\n">>

\* f"\n---\nResumen documental:\n{df.to_string(index=False)}\n"
bloque_resumen(name, tabla) ==
    <<SEP, "Resumen documental:", "\n">> \o tabla \o <<"\n">>

RECURSIVE Recorrer(_, _, _, _, _)

\* a faulty variant: the handler skips the failing blob and the loop goes on
excepcion_continua(blobs, i, f, contenido_total, temp) ==
    [Recorrer(blobs, i + 1, f, contenido_total, temp) EXCEPT !.error = TRUE]

\* a faulty variant: the handler throws away what was collected
excepcion_vacia(blobs, i, f, contenido_total, temp) ==
    [contenido |-> <<>>, error |-> TRUE, temp |-> temp]

\* except Exception: st.error(...); then return contenido_total
excepcion(blobs, i, f, contenido_total, temp) ==
    [contenido |-> contenido_total, error |-> TRUE, temp |-> temp]

\* the for loop from blob i on; temp tells whether temp_excel.xlsx exists
Recorrer(blobs, i, f, contenido_total, temp) ==
    IF f.en = i /\ f.tipo = "listar"
    THEN excepcion(blobs, i, f, contenido_total, temp)
    ELSE IF i > Len(blobs)
    THEN [contenido |-> contenido_total, error |-> FALSE, temp |-> temp]
    ELSE LET name == blobs[i] IN
      IF es_texto(name)
      THEN IF f.en = i /\ f.tipo = "descargar"
           THEN excepcion(blobs, i, f, contenido_total, temp)
           ELSE Recorrer(blobs, i + 1, f,
                    contenido_total \o bloque_archivo(name, decode(name)), temp)
      ELSE IF es_docx_reglas(name)
      THEN IF f.en = i /\ f.tipo \in {"descargar", "analizar"}
           THEN excepcion(blobs, i, f, contenido_total, temp)
           ELSE Recorrer(blobs, i + 1, f,
                    contenido_total
                        \o bloque_archivo(name, join("\n", parrafos(name))),
                    temp)
      ELSE IF es_xlsx_estado(name)
      THEN IF f.en = i /\ f.tipo = "descargar"
           THEN excepcion(blobs, i, f, contenido_total, temp)
           ELSE IF f.en = i /\ f.tipo = "analizar"
           \* open(...,"wb") wrote the file, pd.read_excel raised
           THEN excepcion(blobs, i, f, contenido_total, TRUE)
           \* os.remove after the block was appended
           ELSE Recorrer(blobs, i + 1, f,
                    contenido_total \o bloque_resumen(name, to_string(name)),
                    FALSE)
      ELSE Recorrer(blobs, i + 1, f, contenido_total, temp)

leer_archivos_texto(blobs, f, temp) == Recorrer(blobs, 1, f, <<>>, temp)

-----------------------------------------------------------------------------
(* The aggregator alone: one call on any container, under any fault *)

SinCache == [lleno |-> FALSE, valor |-> <<>>, t |-> 0]

InitAgg ==
    /\ pc = "agg_llamada"
    /\ container \in Contenedores
    /\ fallo \in Fallos(container)
    /\ indice = <<>>
    /\ reloj = 0
    /\ documentos_contexto = <<>>
    /\ chat_history = <<>>
    /\ cache = SinCache
    /\ temp_excel = FALSE
    /\ errores = {}
    /\ widget = "ninguno"
    /\ prompt = <<>>
    /\ cedulas_en_pregunta = <<>>
    /\ urls_imagenes = <<>>
    /\ retorno = <<>>
    /\ enumeraciones = 0

Agregar ==
    /\ pc = "agg_llamada"
    /\ LET r == leer_archivos_texto(container, fallo, temp_excel) IN
         /\ retorno' = r.contenido
         /\ temp_excel' = r.temp
         /\ errores' = IF r.error THEN {"contenedor"} ELSE {}
    /\ enumeraciones' = enumeraciones + 1
    /\ pc' = "agg_retorno"
    /\ UNCHANGED <<container, indice, reloj, documentos_contexto, chat_history,
                   cache, widget, prompt, cedulas_en_pregunta, urls_imagenes,
                   fallo>>

NextAgg == Agregar

SpecAgg == InitAgg /\ [][NextAgg]_vars

-----------------------------------------------------------------------------
(* What the specification says of the aggregated context *)

\* eligibility, in the words of the specification
Elegible(name) ==
    \/ Ultimo(name) \in {".txt", ".md"}
    \/ Ultimo(name) = ".docx"
         /\ "DOCUMENTOS_GENERALES" \in {name[i] : i \in DOMAIN name}
    \/ Ultimo(name) = ".xlsx"
         /\ "Estado_documental_postulados" \in {name[i] : i \in DOMAIN name}

TextoExtraido(name) ==
    IF Ultimo(name) \in {".txt", ".md"} THEN decode(name)
    ELSE IF Ultimo(name) = ".docx"
    THEN parrafos(name)[1] \o <<"\n">> \o parrafos(name)[2]
    ELSE to_string(name)

\* a block that names its source object
BloqueConNombre(name) ==
    <<SEP, "Archivo: ">> \o name \o <<"\n">> \o TextoExtraido(name) \o <<"\n">>

\* the block the code builds for a spreadsheet: a fixed heading, no name
BloqueSinNombre(name) ==
    <<SEP, "Resumen documental:", "\n">> \o TextoExtraido(name) \o <<"\n">>

BloqueReal(name) ==
    IF Ultimo(name) = ".xlsx" THEN BloqueSinNombre(name)
    ELSE BloqueConNombre(name)

\* concatenation, in order, of one block per eligible object of blobs
AgregadoReal(blobs) ==
    Aplanar([i \in 1..Len(blobs) |->
        IF Elegible(blobs[i]) THEN BloqueReal(blobs[i]) ELSE <<>>])

AgregadoConNombres(blobs) ==
    Aplanar([i \in 1..Len(blobs) |->
        IF Elegible(blobs[i]) THEN BloqueConNombre(blobs[i]) ELSE <<>>])

Aparece(b, s) ==
    \E k \in 0..(Len(s) - Len(b)) : SubSeq(s, k + 1, k + Len(b)) = b

HuboError == "contenedor" \in errores

\* C3, as stated: when one object fails, only that object is skipped; the
\* block of every eligible object later in the enumeration is in the result.
C3_SoloSeOmiteElFallido ==
    (pc = "agg_retorno" /\ HuboError /\ fallo.tipo \in {"descargar", "analizar"}) =>
        \A j \in (fallo.en + 1)..Len(container) :
            Elegible(container[j]) => Aparece(BloqueReal(container[j]), retorno)

\* C3, amended: when one object fails a diagnostic is shown and the scan stops
\* there; the result holds exactly the blocks of the eligible objects before
\* the failing one, and no block of a later object.
C3_ElFalloDetieneElRecorrido ==
    (pc = "agg_retorno" /\ HuboError) =>
        /\ fallo.en \in 1..Len(container)
        /\ retorno = AgregadoReal(SubSeq(container, 1, fallo.en - 1))

C3_Testigo ==
    /\ pc = "agg_retorno" /\ HuboError
    /\ fallo.en = 2 /\ fallo.tipo = "analizar"
    /\ Len(container) = 3
    /\ \A j \in 1..3 : Elegible(container[j])
    /\ retorno # <<>>

\* C5, as stated: whenever the aggregator returns, on the success path and on
\* every failure path, temp_excel.xlsx does not exist.
C5_SinTemporalAlRetornar ==
    pc = "agg_retorno" => ~temp_excel

\* C9, as stated: without error the result is the concatenation, in
\* enumeration order, of one block per eligible object, every block holding the
\* separator, the name of its source object and the extracted text.
C9_BloquesConNombre ==
    (pc = "agg_retorno" /\ ~HuboError) => retorno = AgregadoConNombres(container)

\* C9, amended: as stated, except that the block of the spreadsheet holds the
\* separator, the fixed heading "Resumen documental:" and the rendered table,
\* and not the name of the object.
C9_BloquesReales ==
    (pc = "agg_retorno" /\ ~HuboError) => retorno = AgregadoReal(container)

C9_Testigo ==
    /\ pc = "agg_retorno" /\ ~HuboError
    /\ Len(container) = 3
    /\ container[1] = <<"DOCUMENTOS_GENERALES", ".docx">>
    /\ container[2] = <<"notas", ".docx">>
    /\ container[3] = <<"Estado_documental_postulados", ".xlsx">>
    /\ retorno = BloqueConNombre(container[1]) \o BloqueSinNombre(container[3])

-----------------------------------------------------------------------------
(* Cedulas in a question, and their images (src/app.py 67-76, 104-112,     *)
(* 154-161).  A character is a one-character token; "sup2" stands for the  *)
(* character SUPERSCRIPT TWO, for which str.isdigit() is true although it  *)
(* is no decimal digit.                                                    *)

Decimales == {"0", "1", "2", "3", "4", "5", "6", "7", "8", "9"}
OtrosDigitos == {"sup2"}
Blancos == {" "}

\* str.isdigit() of one character
isdigit_c(c) == c \in Decimales \cup OtrosDigitos

\* s.isdigit(): every character is a digit and there is at least one
isdigit(s) == Len(s) > 0 /\ \A i \in DOMAIN s : isdigit_c(s[i])

\* prompt.split(): the runs of non-whitespace characters, none of them empty
RECURSIVE split_desde(_, _, _, _)
split_desde(s, i, actual, hechos) ==
    IF i > Len(s)
    THEN IF actual = <<>> THEN hechos ELSE Append(hechos, actual)
    ELSE IF s[i] \in Blancos
    THEN split_desde(s, i + 1, <<>>,
                     IF actual = <<>> THEN hechos ELSE Append(hechos, actual))
    ELSE split_desde(s, i + 1, Append(actual, s[i]), hechos)

split(s) == split_desde(s, 1, <<>>, <<>>)

es_cedula(tok) == isdigit(tok) /\ Len(tok) >= MIN_LEN

\* [s for s in prompt.split() if s.isdigit() and len(s) >= 6]
extraer_cedulas(texto) == SelectSeq(split(texto), es_cedula)

\* index.get(cedula, [])
index_get(index, cedula) ==
    IF cedula \in DOMAIN index THEN index[cedula] ELSE <<>>

\* encontrar_imagenes_por_cedula: [] when the index cannot be read
encontrar_imagenes_por_cedula(index, cedula, falla) ==
    IF falla THEN <<>> ELSE index_get(index, cedula)

CUENTA == "cuenta"
CONTENEDOR == "contenedor"

\* a faulty variant: the folder of the object name is dropped before signing
generar_url_sas_sin_carpeta(blob_name, t) ==
    [cuenta |-> CUENTA, contenedor |-> CONTENEDOR, blob |-> Tail(blob_name),
     sas |-> [blob |-> Tail(blob_name), permiso |-> "r",
              expira |-> t + SAS_DIAS * SegundosPorDia]]

\* https://{account}.blob.core.windows.net/{container}/{blob_name}?{sas_token}
generar_url_sas(blob_name, t) ==
    [cuenta |-> CUENTA, contenedor |-> CONTENEDOR, blob |-> blob_name,
     sas |-> [blob |-> blob_name, permiso |-> "r",
              expira |-> t + SAS_DIAS * SegundosPorDia]]

\* the loop over cedulas_en_pregunta; fallan holds the positions whose read
\* of the index raises
RECURSIVE buscar_imagenes(_, _, _, _, _, _)
buscar_imagenes(index, cedulas, k, fallan, t, acumulado) ==
    IF k > Len(cedulas) THEN acumulado
    ELSE LET urls == encontrar_imagenes_por_cedula(index, cedulas[k], k \in fallan) IN
         buscar_imagenes(index, cedulas, k + 1, fallan, t,
             IF urls # <<>>
             THEN acumulado \o [j \in 1..Len(urls) |-> generar_url_sas(urls[j], t)]
             ELSE acumulado)

\* questions: up to MaxPiezas pieces, one after the other
Piezas == { <<" ">>, <<"a">>, <<"sup2">>,
            <<"1", "2", "3", "4", "5">>, <<"1", "2", "3", "4", "5", "6">> }

Textos == {Aplanar(ps) : ps \in SeqsHasta(Piezas, MaxPiezas)}

Carpeta == "6-Buenaventura-2025/"
Imagenes == { <<Carpeta, "frente", ".jpg">>, <<Carpeta, "reverso", ".jpg">> }
Listas == {s \in SeqsHasta(Imagenes, 2) : Inyectiva(s)}
Claves == { <<"1", "2", "3", "4", "5", "6">>,
            <<"1", "2", "3", "4", "5", "6", "1", "2", "3", "4", "5">> }
Indices == UNION {[D -> Listas] : D \in SUBSET Claves}

InitIds ==
    /\ pc = "ids_pregunta"
    /\ prompt \in Textos
    /\ indice \in Indices
    /\ container = <<>>
    /\ fallo = SinFallo
    /\ reloj = 0
    /\ documentos_contexto = <<>>
    /\ chat_history = <<>>
    /\ cache = SinCache
    /\ temp_excel = FALSE
    /\ errores = {}
    /\ widget = "chat"
    /\ cedulas_en_pregunta = <<>>
    /\ urls_imagenes = <<>>
    /\ retorno = <<>>
    /\ enumeraciones = 0

Extraer ==
    /\ pc = "ids_pregunta"
    /\ cedulas_en_pregunta' = extraer_cedulas(prompt)
    /\ pc' = "ids_cedulas"
    /\ UNCHANGED <<container, indice, reloj, documentos_contexto, chat_history,
                   cache, temp_excel, errores, widget, prompt, urls_imagenes,
                   fallo, retorno, enumeraciones>>

Buscar ==
    /\ pc = "ids_cedulas"
    /\ \E fallan \in SUBSET (1..Len(cedulas_en_pregunta)) :
         /\ urls_imagenes' = buscar_imagenes(indice, cedulas_en_pregunta, 1,
                                             fallan, reloj, <<>>)
         /\ errores' = IF fallan # {} THEN {"indice"} ELSE {}
    /\ pc' = "ids_urls"
    /\ UNCHANGED <<container, indice, reloj, documentos_contexto, chat_history,
                   cache, temp_excel, widget, prompt, cedulas_en_pregunta,
                   fallo, retorno, enumeraciones>>

NextIds == Extraer \/ Buscar

SpecIds == InitIds /\ [][NextIds]_vars

-----------------------------------------------------------------------------
(* What the specification says of the identifiers and their URLs *)

\* the whitespace-delimited tokens of s, in order of occurrence
EmpiezaToken(s, i) ==
    s[i] \notin Blancos /\ (i = 1 \/ s[i - 1] \in Blancos)

FinToken(s, i) ==
    CHOOSE j \in i..Len(s) :
        /\ \A k \in i..j : s[k] \notin Blancos
        /\ (j = Len(s) \/ s[j + 1] \in Blancos)

RECURSIVE TokensDesde(_, _)
TokensDesde(s, i) ==
    IF i > Len(s) THEN <<>>
    ELSE IF EmpiezaToken(s, i)
    THEN <<SubSeq(s, i, FinToken(s, i))>> \o TokensDesde(s, i + 1)
    ELSE TokensDesde(s, i + 1)

SoloDecimales(tok) == \A i \in DOMAIN tok : tok[i] \in Decimales

EsIdentificador(tok) == SoloDecimales(tok) /\ Len(tok) >= 6

\* C7, as stated: the extraction returns exactly the whitespace-delimited
\* tokens made only of decimal digits and at least 6 long, in order of
\* occurrence and with their repetitions.
C7_SoloTokensDecimales ==
    pc # "ids_pregunta" =>
        cedulas_en_pregunta = SelectSeq(TokensDesde(prompt, 1), EsIdentificador)

NombresDe(index, ced) == IF ced \in DOMAIN index THEN index[ced] ELSE <<>>

NombresEsperados ==
    Aplanar([k \in 1..Len(cedulas_en_pregunta) |->
                NombresDe(indice, cedulas_en_pregunta[k])])

\* C8: when the index is read, the URLs of the turn are, in order of
\* occurrence of the identifiers and then in the order of each image list, one
\* signed URL per object name the index gives for each extracted identifier:
\* as many as the matched lists hold, none for an identifier the index lacks,
\* each built on the object name as the index stores it.
C8_UrlsAplanadas ==
    (pc = "ids_urls" /\ "indice" \notin errores) =>
        /\ Len(urls_imagenes) = Len(NombresEsperados)
        /\ \A n \in 1..Len(urls_imagenes) :
              /\ urls_imagenes[n].blob = NombresEsperados[n]
              /\ urls_imagenes[n].sas.blob = NombresEsperados[n]
              /\ urls_imagenes[n].sas.permiso = "r"

C8_Testigo ==
    /\ pc = "ids_urls" /\ "indice" \notin errores
    /\ Len(cedulas_en_pregunta) = 2
    /\ cedulas_en_pregunta[1] # cedulas_en_pregunta[2]
    /\ cedulas_en_pregunta[1] \in DOMAIN indice
    /\ cedulas_en_pregunta[2] \in DOMAIN indice
    /\ Len(indice[cedulas_en_pregunta[1]]) = 2
    /\ Len(indice[cedulas_en_pregunta[2]]) = 1
    /\ Len(urls_imagenes) = 3
    /\ urls_imagenes[2].blob = indice[cedulas_en_pregunta[1]][2]
    /\ urls_imagenes[3].blob = indice[cedulas_en_pregunta[2]][1]

-----------------------------------------------------------------------------
(* The session: the script runs top to bottom on every interaction         *)
(* (src/app.py 26-29, 114-117, 127-133, 144-195)                           *)

\* the "images" entry of a turn: None, or a list of URLs
None == [none |-> TRUE, lista |-> <<>>]
Lista(urls) == [none |-> FALSE, lista |-> urls]

\* a faulty variant: nothing is ever served from the cache
cache_nunca_vigente(c, ahora) == FALSE

\* @st.cache_data(ttl=3600): the entry is served while younger than the ttl
cache_vigente(c, ahora) == c.lleno /\ ahora - c.t < TTL

\* a faulty variant: the transcript is replaced, not extended
pregunta_reemplaza(h, p) == <<[role |-> "user", content |-> p]>>

\* st.session_state.chat_history.append({"role": "user", "content": prompt})
agregar_pregunta(h, p) == Append(h, [role |-> "user", content |-> p])

\* a faulty variant: the images are not stored with the answer
respuesta_sin_imagenes(h, respuesta, urls) ==
    Append(h, [role |-> "assistant", content |-> respuesta, images |-> None])

\* chat_history.append({"role": "assistant", "content": respuesta,
\*                      "images": urls_imagenes if urls_imagenes else None})
agregar_respuesta(h, respuesta, urls) ==
    Append(h, [role |-> "assistant", content |-> respuesta,
               images |-> IF urls # <<>> THEN Lista(urls) ELSE None])

ContenedoresSesion ==
    { << <<"notas", ".txt">>, <<"DOCUMENTOS_GENERALES", ".docx">>,
         <<"Estado_documental_postulados", ".xlsx">> >>,
      << <<"Estado_documental_postulados", ".xlsx">>, <<"notas", ".md">> >>,
      << <<"notas", ".jpg">>, <<"notas", ".docx">> >> }

IndiceSesion ==
    [c \in { <<"1", "2", "3", "4", "5", "6">> } |->
        << <<Carpeta, "frente", ".jpg">>, <<Carpeta, "reverso", ".jpg">> >>]

Preguntas == { <<"a">>, <<"1", "2", "3", "4", "5", "6">> }

Respuestas == {"respuesta"}

Pasos == {TTL \div 2, TTL}

Init ==
    /\ pc = "inicio"
    /\ container \in ContenedoresSesion
    /\ indice = IndiceSesion
    /\ reloj = 0
    /\ documentos_contexto = <<>>
    /\ chat_history = <<>>
    /\ cache = SinCache
    /\ temp_excel = FALSE
    /\ errores = {}
    /\ widget = "ninguno"
    /\ prompt = <<>>
    /\ cedulas_en_pregunta = <<>>
    /\ urls_imagenes = <<>>
    /\ fallo = SinFallo
    /\ retorno = <<>>
    /\ enumeraciones = 0

\* st.session_state.documentos_contexto = leer_archivos_texto(), behind the
\* cache: a valid entry is returned without running the function
Llamar(origen) ==
    \E f \in Fallos(container) :
      LET acierto == cache_vigente(cache, reloj)
          r == leer_archivos_texto(container, f, temp_excel)
          valor == IF acierto THEN cache.valor ELSE r.contenido
      IN  /\ acierto => f = SinFallo
          /\ documentos_contexto' = valor
          /\ cache' = IF acierto THEN cache
                      ELSE [lleno |-> TRUE, valor |-> r.contenido, t |-> reloj]
          /\ temp_excel' = IF acierto THEN temp_excel ELSE r.temp
          /\ enumeraciones' = IF acierto THEN enumeraciones ELSE enumeraciones + 1
          /\ errores' = IF ~acierto /\ r.error
                        THEN errores \cup {"contenedor"} ELSE errores

SinLlamar ==
    UNCHANGED <<documentos_contexto, cache, temp_excel, enumeraciones, errores>>

\* if not st.session_state.documentos_contexto: ... (lines 115-117)
CargaInicial ==
    /\ pc = "inicio"
    /\ IF documentos_contexto = <<>> THEN Llamar("inicio") ELSE SinLlamar
    /\ pc' = "barra"
    /\ UNCHANGED <<container, indice, reloj, chat_history, widget, prompt,
                   cedulas_en_pregunta, urls_imagenes, fallo, retorno>>

\* if st.button("Actualizar documentos de contexto"): ... (lines 130-133)
BotonActualizar ==
    /\ pc = "barra"
    /\ IF widget = "boton" THEN Llamar("boton") ELSE SinLlamar
    /\ pc' = "chat"
    /\ UNCHANGED <<container, indice, reloj, chat_history, widget, prompt,
                   cedulas_en_pregunta, urls_imagenes, fallo, retorno>>

\* if prompt := st.chat_input(...): ... (lines 144-195)
TurnoChat ==
    /\ pc = "chat"
    /\ IF widget = "chat"
       THEN \E ok \in BOOLEAN, respuesta \in Respuestas :
            \E fallan \in SUBSET (1..Len(extraer_cedulas(prompt))) :
              LET h == agregar_pregunta(chat_history, prompt)
                  cedulas == extraer_cedulas(prompt)
                  urls == buscar_imagenes(indice, cedulas, 1, fallan, reloj, <<>>)
              IN  /\ cedulas_en_pregunta' = cedulas
                  /\ urls_imagenes' = urls
                  /\ chat_history' = IF ok THEN agregar_respuesta(h, respuesta, urls)
                                     ELSE h
                  /\ errores' = errores
                        \cup (IF fallan # {} THEN {"indice"} ELSE {})
                        \cup (IF ok THEN {} ELSE {"openai"})
       ELSE UNCHANGED <<cedulas_en_pregunta, urls_imagenes, chat_history, errores>>
    /\ pc' = "espera"
    /\ UNCHANGED <<container, indice, reloj, documentos_contexto, cache,
                   temp_excel, widget, prompt, fallo, retorno, enumeraciones>>

\* the user acts on a widget, or the page is run again: a new run starts
Interaccion ==
    /\ pc = "espera"
    /\ \E w \in {"ninguno", "boton", "chat"}, p \in Preguntas :
         /\ w = "chat" => Len(chat_history) < 2 * MaxTurnos
         /\ widget' = w
         /\ prompt' = IF w = "chat" THEN p ELSE <<>>
    /\ errores' = {}
    /\ cedulas_en_pregunta' = <<>>
    /\ urls_imagenes' = <<>>
    /\ pc' = "inicio"
    /\ UNCHANGED <<container, indice, reloj, documentos_contexto, chat_history,
                   cache, temp_excel, fallo, retorno, enumeraciones>>

\* time passes between two runs
Tictac ==
    /\ pc = "espera"
    /\ \E d \in Pasos : reloj + d <= MaxReloj /\ reloj' = reloj + d
    /\ UNCHANGED <<pc, container, indice, documentos_contexto, chat_history,
                   cache, temp_excel, errores, widget, prompt,
                   cedulas_en_pregunta, urls_imagenes, fallo, retorno,
                   enumeraciones>>

Next == CargaInicial \/ BotonActualizar \/ TurnoChat \/ Interaccion \/ Tictac

Spec == Init /\ [][Next]_vars

-----------------------------------------------------------------------------
(* What the specification says of the session *)

\* the script is about to ask for the aggregated context
PideInicio == pc = "inicio" /\ documentos_contexto = <<>>
PideBoton == pc = "barra" /\ widget = "boton"

\* the cached value is younger than one hour
DentroDeLaVentana == cache.lleno /\ reloj - cache.t < 3600

\* C1, as stated: whenever the refresh button is served, the store is
\* enumerated once more and the context is rebuilt from it, even when a cached
\* value younger than one hour exists.
C1_RefrescoSiempreEnumera ==
    [][PideBoton => enumeraciones' = enumeraciones + 1]_vars

\* C2: of two consecutive requests that are not forced refreshes, the first
\* enumerates the store once and the second, made less than one hour after,
\* returns the cached string and enumerates nothing.
C2_UnaSolaEnumeracion ==
    [][PideInicio =>
         IF DentroDeLaVentana
         THEN enumeraciones' = enumeraciones
              /\ documentos_contexto' = cache.valor
         ELSE enumeraciones' = enumeraciones + 1
              /\ cache'.lleno /\ cache'.t = reloj
              /\ cache'.valor = documentos_contexto']_vars

C2_Testigo ==
    /\ pc = "barra"
    /\ documentos_contexto = <<>>
    /\ cache.lleno /\ cache.t < reloj /\ reloj - cache.t < 3600
    /\ enumeraciones = 1

PrefijosAgregados ==
    {AgregadoReal(SubSeq(container, 1, k)) : k \in 0..Len(container)}

\* C4, as stated: after a startup load or a refresh the context is the
\* complete aggregation of the store or, when the aggregation hit an error,
\* the value it held before; never the blocks collected before an error.
C4_NuncaParcial ==
    [][(PideInicio \/ PideBoton) =>
         \/ documentos_contexto' = AgregadoReal(container)
         \/ /\ "contenedor" \in errores'
            /\ documentos_contexto' = documentos_contexto]_vars

\* C4, amended: after a startup load or a refresh the context is the string
\* the cached aggregator returned: the complete aggregation when the scan met
\* no error, and otherwise the blocks collected before the error; it is always
\* made of the whole blocks of the eligible objects of a prefix of the
\* enumeration, and the value held before is not kept.
C4_ContextoEsLoRetornado ==
    [][(PideInicio \/ PideBoton) =>
         /\ documentos_contexto' = cache'.valor
         /\ (enumeraciones' # enumeraciones /\ "contenedor" \notin errores')
               => documentos_contexto' = AgregadoReal(container)
         /\ documentos_contexto' \in PrefijosAgregados]_vars

C4_Testigo ==
    /\ pc = "chat" /\ widget = "boton"
    /\ "contenedor" \in errores
    /\ documentos_contexto # <<>>
    /\ documentos_contexto # AgregadoReal(container)
    /\ documentos_contexto = cache.valor

TurnoPendiente == pc = "chat" /\ widget = "chat"

MensajeUsuario == [role |-> "user", content |-> prompt]

\* C6, as stated: a turn whose completion call succeeds appends the question
\* and then the answer with its image URLs; a turn whose completion call fails
\* appends nothing.
C6_FalloNoAgregaNada ==
    [][TurnoPendiente =>
         IF "openai" \in errores'
         THEN chat_history' = chat_history
         ELSE Len(chat_history') = Len(chat_history) + 2]_vars

\* C6, amended: a turn whose completion call succeeds appends the question and
\* then the answer with its image URLs; a turn whose completion call fails
\* appends the question alone, and no answer.
C6_FalloAgregaSoloLaPregunta ==
    [][TurnoPendiente =>
         IF "openai" \in errores'
         THEN chat_history' = chat_history \o <<MensajeUsuario>>
         ELSE /\ Len(chat_history') = Len(chat_history) + 2
              /\ SubSeq(chat_history', 1, Len(chat_history)) = chat_history
              /\ chat_history'[Len(chat_history) + 1] = MensajeUsuario
              /\ LET m == chat_history'[Len(chat_history) + 2] IN
                   /\ m.role = "assistant"
                   /\ m.content \in Respuestas
                   /\ m.images.none = (urls_imagenes' = <<>>)
                   /\ m.images.lista = urls_imagenes']_vars

C6_Testigo ==
    /\ pc = "espera" /\ widget = "chat"
    /\ Len(chat_history) = 3
    /\ chat_history[1].role = "user"
    /\ chat_history[2].role = "assistant"
    /\ Len(chat_history[2].images.lista) = 2
    /\ chat_history[3].role = "user"
    /\ "openai" \in errores

\* C10: the transcript before a step is a prefix of the transcript after it,
\* whatever the step (a turn with its calls succeeding or failing, a refresh,
\* a new run), and a load or a refresh of the context leaves it as it is.
C10_SoloSeAgrega ==
    [][/\ EsPrefijo(chat_history, chat_history')
       /\ (pc \in {"inicio", "barra"}) => chat_history' = chat_history]_vars

C10_Testigo ==
    /\ pc = "chat" /\ widget = "boton"
    /\ enumeraciones >= 1
    /\ Len(chat_history) = 3
    /\ chat_history[3].role = "user"

====
